---- MODULE Spec2Model ----
(***************************************************************************)
(* typed-client-router (src/src/index.ts): createRouter and the router it  *)
(* returns, over the three collaborators it imports: the browser history   *)
(* (package "history"), the path matcher (package "path-parser") and the   *)
(* query codec (package "query-string").                                   *)
(*                                                                         *)
(* Strings are sequences of symbols; concatenating the symbols of a        *)
(* sequence gives the string. "/", "?", "&", "=" and "," are the           *)
(* characters themselves, "%2F", "%26", "%3D" and "%2C" their percent      *)
(* escapes, and every other symbol is a chunk of letters and digits that   *)
(* no codec changes and the URL parser of the browser leaves as it is.     *)
(* An optional value (string | undefined, object | null) is a sequence of  *)
(* length 0 or 1.                                                          *)
(***************************************************************************)
EXTENDS Integers, Sequences, FiniteSets, TLC

\* ---------------------------------------------------------------------
\* Bounds of the model
\* ---------------------------------------------------------------------
MaxEntries == 2
MaxCalls == 1

\* ---------------------------------------------------------------------
\* Optional values and small helpers
\* ---------------------------------------------------------------------
None == <<>>
Some(x) == <<x>>
IsSome(o) == Len(o) = 1
Get(o) == o[1]

EmptyMap == [k \in {} |-> <<>>]

Last(s) == s[Len(s)]
Front(s) == SubSeq(s, 1, Len(s) - 1)

\* the position of the first occurrence of symbol c in s, 0 when absent
RECURSIVE IndexOf(_, _)
IndexOf(s, c) ==
  IF s = <<>> THEN 0
  ELSE IF Head(s) = c THEN 1
  ELSE LET i == IndexOf(Tail(s), c) IN IF i = 0 THEN 0 ELSE i + 1

\* String.prototype.split(sep) for a one-symbol separator
RECURSIVE Split(_, _)
Split(s, sep) ==
  LET i == IndexOf(s, sep)
  IN IF i = 0 THEN <<s>>
     ELSE <<SubSeq(s, 1, i - 1)>> \o Split(SubSeq(s, i + 1, Len(s)), sep)

\* String.prototype.substring(n)
Substring(s, n) == IF n >= Len(s) THEN <<>> ELSE SubSeq(s, n + 1, Len(s))

\* ---------------------------------------------------------------------
\* Percent encoding (encodeURIComponent and its variants, decodeURIComponent)
\* ---------------------------------------------------------------------
\* path-parser, default encoding of a url parameter:
\* encodeURIComponent, excluding the sub-delimiters !$'()*+,;|:
EncodeParamSym(c) ==
  CASE c = "/" -> "%2F"
    [] c = "&" -> "%26"
    [] c = "=" -> "%3D"
    [] c = "?" -> "%3F"
    [] OTHER -> c

\* path-parser, a splat parameter: split on "/", encode each part, join
EncodeSplatSym(c) == IF c = "/" THEN "/" ELSE EncodeParamSym(c)

\* query-string: strict-uri-encode of keys and values
StrictUriEncodeSym(c) ==
  CASE c = "/" -> "%2F"
    [] c = "&" -> "%26"
    [] c = "=" -> "%3D"
    [] c = "?" -> "%3F"
    [] c = "," -> "%2C"
    [] OTHER -> c

\* the encoders, symbol by symbol over a string
EncodeParam(s) == [i \in 1..Len(s) |-> EncodeParamSym(s[i])]
EncodeSplat(s) == [i \in 1..Len(s) |-> EncodeSplatSym(s[i])]
StrictUriEncode(s) == [i \in 1..Len(s) |-> StrictUriEncodeSym(s[i])]

\* decodeURIComponent
DecodeSym(c) ==
  CASE c = "%2F" -> "/"
    [] c = "%26" -> "&"
    [] c = "%3D" -> "="
    [] c = "%3F" -> "?"
    [] c = "%2C" -> ","
    [] OTHER -> c

Decode(s) == [i \in 1..Len(s) |-> DecodeSym(s[i])]

\* ---------------------------------------------------------------------
\* path-parser: new Path(template), path.params, path.test, path.build
\* ---------------------------------------------------------------------
\* a template is a sequence of symbols: "/", a literal chunk, ":name",
\* "*name", and after the path "?", declared query keys and "&"
ParamSyms == {":id"}
SplatSyms == {"*something"}
PlaceholderName(t) ==
  CASE t = ":id" -> "id"
    [] t = "*something" -> "something"
    [] OTHER -> t

IsPlaceholder(t) == t \in ParamSyms \cup SplatSyms

\* path.params: the placeholder names of the template, in order
RECURSIVE PathParamNames(_)
PathParamNames(tokens) ==
  IF tokens = <<>> THEN {}
  ELSE (IF IsPlaceholder(Head(tokens)) THEN {PlaceholderName(Head(tokens))} ELSE {})
       \cup PathParamNames(Tail(tokens))

\* the default constraint of a url parameter, [a-zA-Z0-9-_.~%':|=+\*@$]+ :
\* of the symbols of the model only these are outside the class
OutsideParamClass == {"/", "?", "&", ",", "#"}

\* regular expressions are compiled with the "i" flag (caseSensitive: false)
Lower(c) ==
  CASE c = "ITEMS" -> "items"
    [] OTHER -> c

\* the longest prefix of s made of symbols of the parameter class
RECURSIVE ParamRun(_)
ParamRun(s) ==
  IF s = <<>> \/ Head(s) \in OutsideParamClass THEN <<>>
  ELSE <<Head(s)>> \o ParamRun(Tail(s))

\* the regular expression of the tokens against the rest of the path;
\* optSlash: the source ends with an optional "/" (strictTrailingSlash: false).
\* A placeholder is followed by "/" or ends the template, and a splat
\* ends it, as in every template of the model.
RECURSIVE MatchTokens(_, _, _, _)
MatchTokens(tokens, s, acc, optSlash) ==
  IF tokens = <<>>
  THEN IF s = <<>> \/ (optSlash /\ s = <<"/">>) THEN Some(acc) ELSE None
  ELSE LET t == Head(tokens) IN
    IF t \in SplatSyms
    THEN Some(acc @@ (PlaceholderName(t) :> Decode(s)))
    ELSE IF t \in ParamSyms
    THEN LET run == ParamRun(s) IN
         IF run = <<>> THEN None
         ELSE MatchTokens(Tail(tokens), SubSeq(s, Len(run) + 1, Len(s)),
                          acc @@ (PlaceholderName(t) :> Decode(run)), optSlash)
    ELSE IF s # <<>> /\ Lower(Head(s)) = Lower(t)
         THEN MatchTokens(Tail(tokens), Tail(s), acc, optSlash)
         ELSE None

\* path.test(pathname): the captured parameters, or null
PathTest(tokens, pathname) ==
  IF tokens = <<"/">> THEN MatchTokens(tokens, pathname, EmptyMap, FALSE)
  ELSE IF Last(tokens) = "/" THEN MatchTokens(Front(tokens), pathname, EmptyMap, TRUE)
  ELSE MatchTokens(tokens, pathname, EmptyMap, TRUE)

\* every placeholder has a value (exists: neither undefined nor null)
BuildHasAll(tokens, params) == PathParamNames(tokens) \subseteq DOMAIN params

\* every encoded url parameter, splats excepted, passes its constraint
BuildConstraintsPass(tokens, params) ==
  \A i \in 1..Len(tokens) :
    tokens[i] \in ParamSyms =>
      LET v == EncodeParam(params[PlaceholderName(tokens[i])])
      IN v # <<>> /\ \A j \in 1..Len(v) : v[j] \notin OutsideParamClass

RECURSIVE BuildJoin(_, _)
BuildJoin(tokens, params) ==
  IF tokens = <<>> THEN <<>>
  ELSE LET t == Head(tokens) IN
       (IF t \in ParamSyms THEN EncodeParam(params[PlaceholderName(t)])
        ELSE IF t \in SplatSyms THEN EncodeSplat(params[PlaceholderName(t)])
        ELSE <<t>>)
       \o BuildJoin(Tail(tokens), params)

\* (changed: a placeholder without a value is built as "undefined")
PathBuildLenient(tokens, params) ==
  LET filled == [k \in PathParamNames(tokens) |->
                   IF k \in DOMAIN params THEN params[k] ELSE <<"undefined">>]
  IN [ok |-> TRUE, path |-> BuildJoin(tokens, filled)]

\* path.build(params): the path, or a thrown Error
PathBuild(tokens, params) ==
  IF ~BuildHasAll(tokens, params) THEN [ok |-> FALSE, path |-> <<>>]
  ELSE IF ~BuildConstraintsPass(tokens, params) THEN [ok |-> FALSE, path |-> <<>>]
  ELSE [ok |-> TRUE, path |-> BuildJoin(tokens, params)]

\* ---------------------------------------------------------------------
\* query-string: stringify and parse
\* ---------------------------------------------------------------------
\* the keys of the model, in the order Array.prototype.sort gives them
KeyOrder == <<"foo", "id", "page", "something", "sort">>

RECURSIVE StringifyFrom(_, _)
StringifyFrom(obj, keys) ==
  IF keys = <<>> THEN <<>>
  ELSE LET k == Head(keys)
           rest == StringifyFrom(obj, Tail(keys))
       IN IF k \notin DOMAIN obj THEN rest
          ELSE <<StrictUriEncodeSym(k), "=">> \o StrictUriEncode(obj[k])
               \o (IF rest = <<>> THEN <<>> ELSE <<"&">> \o rest)

\* queryString.stringify(object): keys sorted, "key=value" joined by "&"
Stringify(obj) == StringifyFrom(obj, KeyOrder)

\* one "key=value" piece: the key and the value, both decoded
PieceKey(p) ==
  LET i == IndexOf(p, "=") IN Decode(IF i = 0 THEN p ELSE SubSeq(p, 1, i - 1))[1]
PieceValue(p) ==
  LET i == IndexOf(p, "=") IN Decode(IF i = 0 THEN <<>> ELSE SubSeq(p, i + 1, Len(p)))

RECURSIVE ParsePieces(_)
ParsePieces(pieces) ==
  IF pieces = <<>> THEN EmptyMap
  ELSE LET p == Head(pieces)
           rest == ParsePieces(Tail(pieces))
       IN IF p = <<>> THEN rest ELSE (PieceKey(p) :> PieceValue(p)) @@ rest

\* queryString.parse(search): the leading "?" dropped, split on "&", each
\* piece split on its first "=", keys and values decoded. No key occurs
\* twice in a search string of the model.
Parse(search) ==
  LET q == IF search # <<>> /\ Head(search) \in {"?", "#", "&"} THEN Tail(search) ELSE search
  IN IF q = <<>> THEN EmptyMap ELSE ParsePieces(Split(q, "&"))

\* ---------------------------------------------------------------------
\* Route configurations and inputs of the model
\* ---------------------------------------------------------------------
Route(n, t) == [name |-> n, template |-> t]

\* { main: '/', items: '/items?page&sort', item: '/items/:id?page',
\*   fresh: '/items/new', creative: '/creative/*something' }
ConfigA ==
  << Route("main", <<"/">>),
     Route("items", <<"/", "items", "?", "page", "&", "sort">>),
     Route("item", <<"/", "items", "/", ":id", "?", "page">>),
     Route("fresh", <<"/", "items", "/", "new">>),
     Route("creative", <<"/", "creative", "/", "*something">>) >>

\* { main: '/', item: '/items/:id' }
ConfigB ==
  << Route("main", <<"/">>),
     Route("item", <<"/", "items", "/", ":id">>) >>

\* createRouter(config, { base }) calls, with the location the page is at.
\* substring counts characters: the symbols of a path that lie within the
\* length of the base are single characters.
Setups ==
  { [config |-> ConfigA, base |-> None, at |-> <<"/", "nonexistent">>],
    [config |-> ConfigB, base |-> Some(<<"/">>), at |-> <<"/", "ITEMS", "/", "1", "/">>],
    [config |-> ConfigB, base |-> Some(<<"a", "p", "p">>),
     at |-> <<"/", "i", "t", "e", "ms", "/", "1">>] }

Str(s) == Some(s)
Undefined == None

Names == {"main", "items", "item", "fresh", "creative", "nowhere"}

\* the values objects url is called with: key -> string | undefined
ValueMaps ==
  { EmptyMap,
    ("id" :> Str(<<"1">>)),
    ("id" :> Str(<<"new">>)),
    ("id" :> Str(<<"a", "/", "1">>)),
    ("id" :> Str(<<>>)),
    ("id" :> Undefined),
    ("id" :> Str(<<"1">>)) @@ ("page" :> Str(<<"2">>)) @@ ("sort" :> Undefined),
    ("page" :> Str(<<"1">>)),
    ("page" :> Str(<<"2">>)) @@ ("sort" :> Str(<<"a", "&", "b">>)),
    ("something" :> Str(<<"a", "/", "1">>)),
    ("something" :> Str(<<>>)) }

Args(n, v) == [name |-> n, values |-> v]

\* the (name, values) push and replace are called with
Navigations ==
  { Args("main", EmptyMap),
    Args("item", ("id" :> Str(<<"a", "/", "1">>)) @@ ("page" :> Str(<<"2">>))
                 @@ ("sort" :> Undefined)),
    Args("item", ("id" :> Undefined)),
    Args("fresh", EmptyMap),
    Args("nowhere", EmptyMap) }

\* the (name, values) push and replace are called with while listeners
\* are registered
FewNavigations ==
  { Args("items", ("page" :> Str(<<"1">>))),
    Args("item", ("id" :> Str(<<"a", "/", "1">>))) }

\* the calls a listener makes from inside its callback
CallbackTargets == { Args("item", ("id" :> Str(<<"a", "/", "1">>))) }

\* the (key, value) setQuery is called with
QueryUpdates ==
  { [key |-> "foo", value |-> Str(<<"a", "&", "b">>)],
    [key |-> "foo", value |-> Undefined] }

FewQueryUpdates ==
  { [key |-> "page", value |-> Str(<<"a", "&", "b">>)] }

Listeners == {"l1", "l2"}
NoListener == "none"

\* ---------------------------------------------------------------------
\* State
\* ---------------------------------------------------------------------
VARIABLES
  routes,     \* createRouter: the route table, in configuration order
  base,       \* createRouter: the base option after normalisation
  entries,    \* history: the entries of the session history
  index,      \* history: the position of the current entry
  listeners,  \* createRouter: the Set of listeners, in insertion order
  spent,      \* the listeners a disposer of which has been called
  stack,      \* the notify calls in progress, innermost last
  call,       \* the last call made by the application (not by a listener)
  obs,        \* what that call has caused so far
  held        \* a value the application got, and what its fields read then

vars == <<routes, base, entries, index, listeners, spent, stack, call, obs, held>>

\* history.location
Location == entries[index]

Entry(p, s, q) == [pathname |-> p, search |-> s, isQueryUpdate |-> q]

\* ---------------------------------------------------------------------
\* createRouter
\* ---------------------------------------------------------------------
\* (changed: the base is used as it was given)
NormalizeBaseAsGiven(b) == b

\* the base as createRouter uses it: "/" becomes "", and a base that does
\* not start with "/" gets one
NormalizeBase(b) ==
  IF b = Some(<<"/">>) THEN Some(<<>>)
  ELSE IF IsSome(b) /\ Get(b) # <<>> /\ Head(Get(b)) # "/" THEN Some(<<"/">> \o Get(b))
  ELSE b

\* config[route].split('?')[0]
StripQuery(template) == Split(template, "?")[1]

\* new Path(base ? base + routePath : routePath)
CompilePath(b, template) ==
  IF IsSome(b) /\ Get(b) # <<>> THEN Get(b) \o StripQuery(template)
  ELSE StripQuery(template)

\* for (const route in config) routes.push({ name, path, ... })
RouteTable(config, b) ==
  [i \in 1..Len(config) |->
     [name |-> config[i].name, path |-> CompilePath(b, config[i].template)]]

\* base?.length ?? 0
BaseLength == IF IsSome(base) THEN Len(Get(base)) ELSE 0

\* ---------------------------------------------------------------------
\* Route objects and the values read from them
\* ---------------------------------------------------------------------
\* routes.find, for the two predicates the router uses: the index of the
\* first route from i on that accepts p (that is called name), 0 when none
RECURSIVE FindAccepting(_, _)
FindAccepting(p, i) ==
  IF i > Len(routes) THEN 0
  ELSE IF IsSome(PathTest(routes[i].path, p)) THEN i
  ELSE FindAccepting(p, i + 1)

RECURSIVE FindNamed(_, _)
FindNamed(name, i) ==
  IF i > Len(routes) THEN 0
  ELSE IF routes[i].name = name THEN i
  ELSE FindNamed(name, i + 1)

\* get queries() of the router
queries == Parse(Location.search)

\* get pathname(), of a route and of the router
pathname == Substring(Location.pathname, BaseLength)

\* (changed: the last route that accepts p, not the first)
ActiveAtLast(p) ==
  LET acc == {i \in 1..Len(routes) : IsSome(PathTest(routes[i].path, p))}
  IN IF acc = {} THEN Undefined ELSE Some(CHOOSE i \in acc : \A j \in acc : j <= i)

\* (changed: the first route stands in when no route accepts p)
ActiveAtOrFirst(p) ==
  LET i == FindAccepting(p, 1)
  IN Some(IF i = 0 THEN 1 ELSE i)

\* routes.find((route) => route.path.test(p)) for a pathname p
ActiveAt(p) ==
  LET i == FindAccepting(p, 1)
  IN IF i = 0 THEN Undefined ELSE Some(i)

\* (changed: the path is tested with the base already removed)
getActiveRouteStripped == ActiveAt(pathname)

\* getActiveRoute(): the route object, or undefined
getActiveRoute == ActiveAt(Location.pathname)

\* get params() of route i: this.path.test(history.location.pathname) || {}
RouteParams(i) ==
  LET m == PathTest(routes[i].path, Location.pathname)
  IN IF IsSome(m) THEN Get(m) ELSE EmptyMap

\* (changed: only the keys the template of route i declares are read)
RouteQueriesDeclared(i) ==
  LET config == IF Len(routes) = Len(ConfigA) THEN ConfigA ELSE ConfigB
      t == config[i].template
      q == IndexOf(t, "?")
      declared == IF q = 0 THEN {} ELSE {t[j] : j \in (q + 1)..Len(t)} \ {"&"}
      parsed == Parse(Location.search)
  IN [k \in DOMAIN parsed \cap declared |-> parsed[k]]

\* get queries() of route i: queryString.parse(history.location.search)
RouteQueries(i) == Parse(Location.search)

\* the four fields of route object i, read now
RouteFields(i) ==
  [name |-> routes[i].name, params |-> RouteParams(i), queries |-> RouteQueries(i),
   pathname |-> pathname]

\* a value a caller holds: a route object of the table (its getters run at
\* every read) or an object with own data properties
LiveRoute(i) == [live |-> TRUE, route |-> i, fields |-> <<>>]
Spread(i) == [live |-> FALSE, route |-> i, fields |-> <<RouteFields(i)>>]

\* reading name, params, queries and pathname of a held value now
FieldsNow(v) == IF v.live THEN RouteFields(v.route) ELSE v.fields[1]

\* get current(): getActiveRoute()
current ==
  LET r == getActiveRoute IN IF IsSome(r) THEN Some(LiveRoute(Get(r))) ELSE Undefined

\* the fields of router.current read now, or undefined
CurrentFields ==
  LET r == getActiveRoute IN IF IsSome(r) THEN Some(RouteFields(Get(r))) ELSE Undefined

\* ---------------------------------------------------------------------
\* getRoute, splitParams and the target of url, push and replace
\* ---------------------------------------------------------------------
\* (changed: the first route stands in for a name that is not found)
getRouteOrFirst(name) ==
  LET i == FindNamed(name, 1)
  IN Some(IF i = 0 THEN 1 ELSE i)

\* getRoute(name): the route, or a thrown Error (None)
getRoute(name) ==
  LET i == FindNamed(name, 1)
  IN IF i = 0 THEN None ELSE Some(i)

\* (changed: a placeholder key is put in the query bucket as well)
splitParamsNoElse(r, values) ==
  LET pathParamNames == PathParamNames(routes[r].path)
      defined == {k \in DOMAIN values : IsSome(values[k])}
  IN [pathParams |-> [k \in defined \cap pathParamNames |-> Get(values[k])],
      queryParams |-> [k \in defined |-> Get(values[k])]]

\* splitParams(route, params)
splitParams(r, values) ==
  LET pathParamNames == PathParamNames(routes[r].path)
      defined == {k \in DOMAIN values : IsSome(values[k])}
  IN [pathParams |-> [k \in defined \cap pathParamNames |-> Get(values[k])],
      queryParams |-> [k \in defined \ pathParamNames |-> Get(values[k])]]

\* the part url, push and replace share: getRoute, splitParams,
\* route.path.build(pathParams) and queryString.stringify(queryParams)
Target(name, values) ==
  LET r == getRoute(name) IN
  IF ~IsSome(r) THEN [result |-> "lookup", pathname |-> <<>>, search |-> <<>>]
  ELSE LET sp == splitParams(Get(r), values)
           b == PathBuild(routes[Get(r)].path, sp.pathParams)
       IN IF ~b.ok THEN [result |-> "build", pathname |-> <<>>, search |-> <<>>]
          ELSE [result |-> "ok", pathname |-> b.path, search |-> Stringify(sp.queryParams)]

\* (changed: the search is left out of the string)
urlWithoutSearch(name, values) ==
  LET t == Target(name, values) IN
  IF t.result # "ok" THEN None ELSE Some(t.pathname)

\* url(name, params): the string, or a thrown Error (None)
url(name, values) ==
  LET t == Target(name, values) IN
  IF t.result # "ok" THEN None
  ELSE Some(IF t.search # <<>> THEN t.pathname \o <<"?">> \o t.search ELSE t.pathname)

\* ---------------------------------------------------------------------
\* history: the location of a transition, and notify
\* ---------------------------------------------------------------------
\* createPath: the search is part of the URL when it is neither "" nor "?",
\* and window.location.search then starts with "?"
HistorySearch(s) ==
  IF s = <<>> \/ s = <<"?">> THEN <<>>
  ELSE IF Head(s) = "?" THEN s ELSE <<"?">> \o s

Zero == [l \in Listeners |-> 0]

\* a notify call that has reached listeners.forEach
Frame(active) ==
  [active |-> active, pos |-> 1, cb |-> NoListener,
   start |-> {listeners[i] : i \in 1..Len(listeners)}, hits |-> Zero, changed |-> FALSE]

\* (changed: the early return is missing)
notifyEveryUpdate(action, loc) == Append(stack, Frame(ActiveAt(loc.pathname)))

\* (changed: the early return does not look at the action)
notifyUnlessQueryUpdate(action, loc) ==
  IF loc.isQueryUpdate THEN stack
  ELSE Append(stack, Frame(ActiveAt(loc.pathname)))

\* (changed: an update that keeps the path returns early too)
notifyPathChanges(action, loc) ==
  IF (action = "REPLACE" /\ loc.isQueryUpdate) \/ loc.pathname = Location.pathname
  THEN stack
  ELSE Append(stack, Frame(ActiveAt(loc.pathname)))

\* notify(update): the calls in progress once notify has been entered
notify(action, loc) ==
  IF action = "REPLACE" /\ loc.isQueryUpdate THEN stack
  ELSE Append(stack, Frame(ActiveAt(loc.pathname)))

\* history.push(to, state) and history.replace(to, state): the entry is
\* written, then the listener of the history (notify) is called
HistoryPush(loc) ==
  /\ entries' = Append(SubSeq(entries, 1, index), loc)
  /\ index' = index + 1
  /\ stack' = notify("PUSH", loc)

HistoryReplace(loc) ==
  /\ entries' = [entries EXCEPT ![index] = loc]
  /\ index' = index
  /\ stack' = notify("REPLACE", loc)

\* popstate: the browser has moved to entry i
HistoryPop(i) ==
  /\ entries' = entries
  /\ index' = i
  /\ stack' = notify("POP", entries[i])

\* ---------------------------------------------------------------------
\* The router's operations, as changes of history and of the listener Set
\* ---------------------------------------------------------------------
\* (changed: the query of the location is merged into the new search)
pushKeepingQuery(name, values) ==
  LET t == Target(name, values) IN
  IF t.result = "ok"
  THEN LET q == splitParams(Get(getRoute(name)), values).queryParams
                  @@ Parse(Location.search)
       IN HistoryPush(Entry(t.pathname, HistorySearch(Stringify(q)), FALSE))
  ELSE UNCHANGED <<entries, index, stack>>

push(name, values) ==
  LET t == Target(name, values) IN
  IF t.result = "ok"
  THEN HistoryPush(Entry(t.pathname, HistorySearch(t.search), FALSE))
  ELSE UNCHANGED <<entries, index, stack>>

replace(name, values) ==
  LET t == Target(name, values) IN
  IF t.result = "ok"
  THEN HistoryReplace(Entry(t.pathname, HistorySearch(t.search), FALSE))
  ELSE UNCHANGED <<entries, index, stack>>

\* (changed: the existing query is not carried over)
NextQueryAlone(key, value) ==
  IF ~IsSome(value) THEN EmptyMap ELSE (key :> Get(value))

\* the query object setQuery stringifies
NextQuery(key, value) ==
  LET existingQuery == Parse(Location.search) IN
  IF ~IsSome(value)
  THEN [k \in DOMAIN existingQuery \ {key} |-> existingQuery[k]]
  ELSE (key :> Get(value)) @@ existingQuery

\* (changed: the new search is pushed, not replaced)
setQueryPushing(key, value) ==
  HistoryPush(Entry(Location.pathname,
                    HistorySearch(<<"?">> \o Stringify(NextQuery(key, value))), TRUE))

setQuery(key, value) ==
  HistoryReplace(Entry(Location.pathname,
                       HistorySearch(<<"?">> \o Stringify(NextQuery(key, value))), TRUE))

Registered == {listeners[i] : i \in 1..Len(listeners)}

\* listeners.add(listener): a Set keeps insertion order and has no duplicates
SetAdd(l) == IF l \in Registered THEN listeners ELSE Append(listeners, l)

\* (changed: nothing is deleted)
SetDeleteNothing(l) == listeners

\* listeners.delete(listener)
SetDelete(l) == SelectSeq(listeners, LAMBDA x : x # l)

\* (changed: the position of a forEach in progress stays where it was)
FrameAfterDeleteInPlace(f, l) ==
  [f EXCEPT !.changed = @ \/ IndexOf(listeners, l) # 0]

\* a forEach in progress goes on with the next entry of the Set that it has
\* not visited: deleting an entry before its position moves the position
FrameAfterDelete(f, l) ==
  LET i == IndexOf(listeners, l) IN
  [f EXCEPT !.pos = IF i # 0 /\ i < @ THEN @ - 1 ELSE @,
            !.changed = @ \/ i # 0]

FrameAfterAdd(f, l) == [f EXCEPT !.changed = @ \/ l \notin Registered]

\* listen(listener)
listen(l) ==
  /\ listeners' = SetAdd(l)
  /\ stack' = [i \in 1..Len(stack) |-> FrameAfterAdd(stack[i], l)]
  /\ spent' = spent

\* the disposer listen(l) returned: () => { listeners.delete(listener) }
dispose(l) ==
  /\ listeners' = SetDelete(l)
  /\ stack' = [i \in 1..Len(stack) |-> FrameAfterDelete(stack[i], l)]
  /\ spent' = spent \cup {l}

\* ---------------------------------------------------------------------
\* What the model records about calls: the last call of the application
\* and what it has caused
\* ---------------------------------------------------------------------
NoArgs == [name |-> "", values |-> EmptyMap, key |-> "", value |-> Undefined,
           listener |-> NoListener, again |-> FALSE]

\* a call of the application: its arguments, its outcome ("ok", "lookup" or
\* "build" for the Error thrown), the string url returned, and the
\* location and the listeners before it
Call(kind, args, result, out) ==
  [kind |-> kind, args |-> args, result |-> result, out |-> out,
   before |-> Location, registered |-> listeners]

\* hits: how often each listener was invoked; passes: the forEach passes
\* completed; navs, calls: the calls listeners made from their callbacks
\* (push and replace; all; listen); last: the last invocation of the pass
\* in progress
Fresh == [hits |-> Zero, passes |-> 0, navs |-> 0, calls |-> 0, listens |-> 0,
          last |-> None]

\* the application keeps a value over the next call it makes, then drops it
Keep(v, from) == Some([val |-> v, seen |-> FieldsNow(v), from |-> from, age |-> 0])
Aged == IF IsSome(held) /\ Get(held).age = 0
        THEN Some([Get(held) EXCEPT !.age = 1]) ELSE None

Idle == stack = <<>>
Top == stack[Len(stack)]
\* a listener's callback is running and may make a call
InCallback == stack # <<>> /\ Top.cb # NoListener /\ obs.calls < MaxCalls

\* ---------------------------------------------------------------------
\* Init: the state createRouter returns in
\* ---------------------------------------------------------------------
Init ==
  \E s \in Setups :
    /\ base = NormalizeBase(s.base)
    /\ routes = RouteTable(s.config, NormalizeBase(s.base))
    /\ entries = <<Entry(s.at, <<>>, FALSE)>>
    /\ index = 1
    /\ listeners = <<>>
    /\ spent = {}
    /\ stack = <<>>
    /\ call = [kind |-> "create", args |-> NoArgs, result |-> "ok", out |-> None,
               before |-> Entry(s.at, <<>>, FALSE), registered |-> <<>>]
    /\ obs = Fresh
    /\ held = None

\* ---------------------------------------------------------------------
\* Calls of the application
\* ---------------------------------------------------------------------
\* (changed: the URL is also written to the history)
UrlNavigating(name, values) ==
  /\ Idle
  /\ index < MaxEntries
  /\ push(name, values)
  /\ call' = Call("url", [NoArgs EXCEPT !.name = name, !.values = values],
                  Target(name, values).result, url(name, values))
  /\ obs' = Fresh
  /\ held' = Aged
  /\ UNCHANGED <<routes, base, listeners, spent>>

Url(name, values) ==
  /\ Idle
  /\ call' = Call("url", [NoArgs EXCEPT !.name = name, !.values = values],
                  Target(name, values).result, url(name, values))
  /\ obs' = Fresh
  /\ held' = Aged
  /\ UNCHANGED <<routes, base, entries, index, listeners, spent, stack>>

Push(name, values) ==
  /\ Idle
  /\ index < MaxEntries
  /\ push(name, values)
  /\ call' = Call("push", [NoArgs EXCEPT !.name = name, !.values = values],
                  Target(name, values).result, None)
  /\ obs' = Fresh
  /\ held' = Aged
  /\ UNCHANGED <<routes, base, listeners, spent>>

Replace(name, values) ==
  /\ Idle
  /\ replace(name, values)
  /\ call' = Call("replace", [NoArgs EXCEPT !.name = name, !.values = values],
                  Target(name, values).result, None)
  /\ obs' = Fresh
  /\ held' = Aged
  /\ UNCHANGED <<routes, base, listeners, spent>>

SetQuery(key, value) ==
  /\ Idle
  /\ setQuery(key, value)
  /\ call' = Call("setQuery", [NoArgs EXCEPT !.key = key, !.value = value], "ok", None)
  /\ obs' = Fresh
  /\ held' = Aged
  /\ UNCHANGED <<routes, base, listeners, spent>>

Listen(l) ==
  /\ Idle
  /\ listen(l)
  /\ call' = Call("listen", [NoArgs EXCEPT !.listener = l], "ok", None)
  /\ obs' = Fresh
  /\ held' = Aged
  /\ UNCHANGED <<routes, base, entries, index>>

\* again: the disposer has been called before; otherwise it is the
\* disposer of the registration l has now
Dispose(l, again) ==
  /\ Idle
  /\ IF again THEN l \in spent ELSE l \in Registered
  /\ dispose(l)
  /\ call' = Call("dispose", [NoArgs EXCEPT !.listener = l, !.again = again], "ok", None)
  /\ obs' = Fresh
  /\ held' = Aged
  /\ UNCHANGED <<routes, base, entries, index>>

\* the user goes back or forward: popstate
Back ==
  /\ Idle
  /\ index > 1
  /\ HistoryPop(index - 1)
  /\ call' = Call("pop", NoArgs, "ok", None)
  /\ obs' = Fresh
  /\ held' = Aged
  /\ UNCHANGED <<routes, base, listeners, spent>>

Forward ==
  /\ Idle
  /\ index < Len(entries)
  /\ HistoryPop(index + 1)
  /\ call' = Call("pop", NoArgs, "ok", None)
  /\ obs' = Fresh
  /\ held' = Aged
  /\ UNCHANGED <<routes, base, listeners, spent>>

\* the application reads router.current and keeps what it got
ReadCurrent ==
  /\ Idle
  /\ IsSome(current)
  /\ held' = Keep(Get(current), "current")
  /\ UNCHANGED <<routes, base, entries, index, listeners, spent, stack, call, obs>>

\* ---------------------------------------------------------------------
\* notify: listeners.forEach, one listener at a time
\* ---------------------------------------------------------------------
\* (changed: the route object is passed on without the spread)
DeliveredLive(active) == IF IsSome(active) THEN Some(LiveRoute(Get(active))) ELSE Undefined

\* listener(activeRoute ? { ...activeRoute } : undefined)
Delivered(active) == IF IsSome(active) THEN Some(Spread(Get(active))) ELSE Undefined

Bump(n) == IF n <= MaxCalls THEN n + 1 ELSE n

\* forEach calls the next listener of the Set. The callback returns at
\* once (runs = FALSE) or goes on to make calls of its own.
Deliver(runs) ==
  /\ stack # <<>>
  /\ Top.cb = NoListener
  /\ Top.pos <= Len(listeners)
  /\ runs => obs.calls < MaxCalls
  /\ LET l == listeners[Top.pos]
         v == Delivered(Top.active)
     IN /\ stack' = [stack EXCEPT ![Len(stack)] =
                       [@ EXCEPT !.pos = @ + 1, !.hits[l] = Bump(@),
                                 !.cb = IF runs THEN l ELSE NoListener]]
        /\ obs' = [obs EXCEPT !.hits[l] = Bump(@),
                              !.last = Some([listener |-> l, value |-> v,
                                             current |-> CurrentFields])]
  /\ UNCHANGED <<routes, base, entries, index, listeners, spent, call, held>>

\* the callback returns
CbReturn ==
  /\ stack # <<>>
  /\ Top.cb # NoListener
  /\ stack' = [stack EXCEPT ![Len(stack)] = [@ EXCEPT !.cb = NoListener]]
  /\ UNCHANGED <<routes, base, entries, index, listeners, spent, call, obs, held>>

\* forEach has visited every listener: notify returns
PassEnd ==
  /\ stack # <<>>
  /\ Top.cb = NoListener
  /\ Top.pos > Len(listeners)
  /\ stack' = Front(stack)
  /\ obs' = [obs EXCEPT !.passes = Bump(@), !.last = None]
  /\ UNCHANGED <<routes, base, entries, index, listeners, spent, call, held>>

\* ---------------------------------------------------------------------
\* Calls a listener makes from inside its callback
\* ---------------------------------------------------------------------
CbPush(t) ==
  /\ InCallback
  /\ index < MaxEntries
  /\ Target(t.name, t.values).result = "ok"
  /\ push(t.name, t.values)
  /\ obs' = [obs EXCEPT !.calls = @ + 1, !.navs = @ + 1]
  /\ UNCHANGED <<routes, base, listeners, spent, call, held>>

CbReplace(t) ==
  /\ InCallback
  /\ Target(t.name, t.values).result = "ok"
  /\ replace(t.name, t.values)
  /\ obs' = [obs EXCEPT !.calls = @ + 1, !.navs = @ + 1]
  /\ UNCHANGED <<routes, base, listeners, spent, call, held>>

CbListen(l) ==
  /\ InCallback
  /\ listen(l)
  /\ obs' = [obs EXCEPT !.calls = @ + 1, !.listens = @ + 1]
  /\ UNCHANGED <<routes, base, entries, index, call, held>>

\* the disposer of the registration l has now
CbDispose(l) ==
  /\ InCallback
  /\ l \in Registered
  /\ dispose(l)
  /\ obs' = [obs EXCEPT !.calls = @ + 1]
  /\ UNCHANGED <<routes, base, entries, index, call, held>>

\* the callback that is running calls the disposer of its listener, then
\* listen with the same listener, and returns: the Set deletes the entry
\* and appends a new one
CbReregister ==
  /\ stack # <<>>
  /\ Top.cb # NoListener
  /\ Top.cb \in Registered
  /\ LET l == Top.cb
         deleted == [i \in 1..Len(stack) |-> FrameAfterDelete(stack[i], l)]
     IN /\ listeners' = Append(SetDelete(l), l)
        /\ stack' = [i \in 1..Len(stack) |->
                       [deleted[i] EXCEPT !.changed = TRUE,
                                          !.cb = IF i = Len(stack) THEN NoListener ELSE @]]
        /\ spent' = spent \cup {l}
  /\ UNCHANGED <<routes, base, entries, index, call, obs, held>>

\* the listener keeps the value it was called with
KeepDelivered ==
  /\ stack # <<>>
  /\ Top.cb # NoListener
  /\ IsSome(Get(obs.last).value)
  /\ held' = Keep(Get(Get(obs.last).value), "listener")
  /\ UNCHANGED <<routes, base, entries, index, listeners, spent, stack, call, obs>>

\* ---------------------------------------------------------------------
\* Specifications
\* ---------------------------------------------------------------------
\* the steps of a notify call in progress
PassSteps == (\E r \in BOOLEAN : Deliver(r)) \/ CbReturn \/ PassEnd

\* the notification protocol: listeners, and the calls they make
Next ==
  \/ \E a \in FewNavigations : Push(a.name, a.values)
  \/ \E a \in FewNavigations : Replace(a.name, a.values)
  \/ \E q \in FewQueryUpdates : SetQuery(q.key, q.value)
  \/ \E l \in Listeners : Listen(l)
  \/ \E l \in Listeners, a \in BOOLEAN : Dispose(l, a)
  \/ Back
  \/ Forward
  \/ \E r \in BOOLEAN : Deliver(r)
  \/ CbReturn
  \/ PassEnd
  \/ \E t \in CallbackTargets : CbPush(t)
  \/ \E t \in CallbackTargets : CbReplace(t)
  \/ \E l \in Listeners : CbListen(l)
  \/ \E l \in Listeners : CbDispose(l)

Spec == Init /\ [][Next]_vars

\* navigation without listeners
NextNav ==
  \/ \E a \in Navigations : Url(a.name, a.values)
  \/ \E a \in Navigations : Push(a.name, a.values)
  \/ \E a \in Navigations : Replace(a.name, a.values)
  \/ \E q \in QueryUpdates : SetQuery(q.key, q.value)
  \/ Back
  \/ Forward
  \/ PassEnd

SpecNav == Init /\ [][NextNav]_vars

\* url over every name and values object, from the state createRouter returns in
NextUrl == \E n \in Names, v \in ValueMaps : Url(n, v)

SpecUrl == Init /\ [][NextUrl]_vars

\* values the application and its listeners keep over later navigation
NextHeld ==
  \/ \E a \in FewNavigations : Push(a.name, a.values)
  \/ \E a \in FewNavigations : Replace(a.name, a.values)
  \/ \E q \in FewQueryUpdates : SetQuery(q.key, q.value)
  \/ \E l \in Listeners : Listen(l)
  \/ Back
  \/ Forward
  \/ ReadCurrent
  \/ \E r \in BOOLEAN : Deliver(r)
  \/ KeepDelivered
  \/ CbReturn
  \/ PassEnd

SpecHeld == Init /\ [][NextHeld]_vars

\* calls that succeed and calls that throw, while listeners are registered
NextFail ==
  \/ \E a \in Navigations : Url(a.name, a.values)
  \/ \E a \in Navigations : Push(a.name, a.values)
  \/ \E a \in Navigations : Replace(a.name, a.values)
  \/ \E l \in Listeners : Listen(l)
  \/ Back
  \/ Forward
  \/ Deliver(FALSE)
  \/ PassEnd

SpecFail == Init /\ [][NextFail]_vars

\* listeners that call only disposers and listen from their callbacks.
\* Notification is synchronous: a notify call in progress runs on.
RunOn == (\E r \in BOOLEAN : Deliver(r)) \/ CbReturn \/ CbReregister \/ PassEnd

NextLoop ==
  \/ \E a \in FewNavigations : Push(a.name, a.values)
  \/ \E l \in Listeners : Listen(l)
  \/ \E r \in BOOLEAN : Deliver(r)
  \/ CbReturn
  \/ CbReregister
  \/ PassEnd

SpecLoop == Init /\ [][NextLoop]_vars /\ WF_vars(RunOn)

\* ---------------------------------------------------------------------
\* What the claims are stated with
\* ---------------------------------------------------------------------
\* the keys of a values object that have a defined value, with their values
Supplied(values) ==
  [k \in {x \in DOMAIN values : IsSome(values[x])} |-> Get(values[k])]

Restrict(f, S) == [k \in DOMAIN f \cap S |-> f[k]]

HasRoute(name) == \E i \in 1..Len(routes) : routes[i].name = name
RouteNamed(name) == CHOOSE i \in 1..Len(routes) : routes[i].name = name

\* the placeholder names of the route called name
Placeholders(name) == PathParamNames(routes[RouteNamed(name)].path)

\* the placeholder values and the query values a call supplies
WantedParams == Restrict(Supplied(call.args.values), Placeholders(call.args.name))
WantedQueries ==
  Restrict(Supplied(call.args.values),
           DOMAIN Supplied(call.args.values) \ Placeholders(call.args.name))

\* a route declared before the one called name accepts the path p
Shadowed(name, p) ==
  \E j \in 1..(RouteNamed(name) - 1) : IsSome(PathTest(routes[j].path, p))

\* push or replace has returned without an Error
Navigated == Idle /\ call.kind \in {"push", "replace"} /\ call.result = "ok"

\* the path and the search of a string url returned
UrlPath(u) == Split(u, "?")[1]
UrlSearch(u) ==
  LET i == IndexOf(u, "?") IN IF i = 0 THEN <<>> ELSE SubSeq(u, i + 1, Len(u))

\* ---------------------------------------------------------------------
\* C1
\* ---------------------------------------------------------------------
\* C1 as claimed: after push(name, values) or replace(name, values) has
\* returned without error, router.current is defined, its name is name and
\* its params are the placeholder values supplied.
C1_AsClaimed ==
  Navigated =>
    /\ IsSome(CurrentFields)
    /\ Get(CurrentFields).name = call.args.name
    /\ Get(CurrentFields).params = WantedParams

\* C1 as amended: after push(name, values) or replace(name, values) has
\* returned without error (no listener having navigated), router.current
\* is defined; its name is name and its params are the placeholder values
\* supplied whenever no route declared before name accepts the built path,
\* and otherwise it is a route declared before name.
C1_CurrentAfterNavigation ==
  Navigated =>
    /\ IsSome(CurrentFields)
    /\ ~Shadowed(call.args.name, Location.pathname) =>
         /\ Get(CurrentFields).name = call.args.name
         /\ Get(CurrentFields).params = WantedParams
    /\ Shadowed(call.args.name, Location.pathname) =>
         Get(getActiveRoute) < RouteNamed(call.args.name)

\* push or replace of item with id "a/1" has returned: current is item, id "a/1"
C1_Witness ==
  /\ Navigated
  /\ call.args.name = "item"
  /\ IsSome(CurrentFields)
  /\ Get(CurrentFields).name = "item"
  /\ Get(CurrentFields).params = ("id" :> <<"a", "/", "1">>)
  /\ IsSome(base)

\* ---------------------------------------------------------------------
\* C4
\* ---------------------------------------------------------------------
\* the routes whose matcher accepts the current path
Accepting == {i \in 1..Len(routes) : IsSome(PathTest(routes[i].path, Location.pathname))}

\* C4: in every reachable state router.current is the earliest route in
\* configuration order whose matcher accepts the current path, and
\* undefined when no matcher accepts it.
C4_FirstMatchWins ==
  IF Accepting = {} THEN current = Undefined
  ELSE /\ IsSome(current)
       /\ Get(current).route \in Accepting
       /\ \A j \in Accepting : Get(current).route <= j

\* two routes accept the current path and current is the earlier one
C4_Witness ==
  /\ Cardinality(Accepting) = 2
  /\ IsSome(current)
  /\ routes[Get(current).route].name = "item"
  /\ call.kind = "push"
  /\ call.args.name = "fresh"

\* ---------------------------------------------------------------------
\* C8
\* ---------------------------------------------------------------------
\* the query keys a template declares after its "?"
DeclaredKeys(template) ==
  LET i == IndexOf(template, "?") IN
  IF i = 0 THEN {}
  ELSE {template[j] : j \in (i + 1)..Len(template)} \ {"&"}

ConfigTemplate(name) ==
  LET cfg == IF Len(routes) = Len(ConfigA) THEN ConfigA ELSE ConfigB
  IN cfg[RouteNamed(name)].template

\* url has returned a string for values that assign the placeholders of
\* the route and otherwise only query keys the route declares
UrlInScope ==
  /\ call.kind = "url"
  /\ call.result = "ok"
  /\ DOMAIN Supplied(call.args.values)
       \subseteq Placeholders(call.args.name) \cup DeclaredKeys(ConfigTemplate(call.args.name))

\* the params and the queries that matching the string against the route
\* table yields: None when no route accepts its path
Matched(u) ==
  LET r == ActiveAt(UrlPath(u)) IN
  IF ~IsSome(r) THEN None
  ELSE Some([name |-> routes[Get(r)].name,
             params |-> Get(PathTest(routes[Get(r)].path, UrlPath(u))),
             queries |-> Parse(UrlSearch(u))])

\* C8 as claimed: url(name, values), split into path and search and
\* matched against the route table, yields the placeholder values as
\* params and the query values as queries.
C8_AsClaimed ==
  UrlInScope =>
    /\ IsSome(Matched(Get(call.out)))
    /\ Get(Matched(Get(call.out))).params = WantedParams
    /\ Get(Matched(Get(call.out))).queries = WantedQueries

\* C8 as amended: the same, for a route no earlier-declared route shadows
\* on the built path; the queries come back in every case.
C8_RoundTrip ==
  UrlInScope =>
    /\ IsSome(Matched(Get(call.out)))
    /\ Get(Matched(Get(call.out))).queries = WantedQueries
    /\ ~Shadowed(call.args.name, UrlPath(Get(call.out))) =>
         /\ Get(Matched(Get(call.out))).name = call.args.name
         /\ Get(Matched(Get(call.out))).params = WantedParams

\* url of items with page "2" and sort "a&b" came back through the codec
C8_Witness ==
  /\ UrlInScope
  /\ call.args.name = "items"
  /\ Get(call.out) = <<"/", "items", "?", "page", "=", "2", "&", "sort", "=", "a", "%26", "b">>
  /\ Get(Matched(Get(call.out))).queries = ("page" :> <<"2">>) @@ ("sort" :> <<"a", "&", "b">>)

\* ---------------------------------------------------------------------
\* C9
\* ---------------------------------------------------------------------
\* the path and the search a successful url, push or replace produced
Produced ==
  IF call.kind = "url"
  THEN [pathname |-> UrlPath(Get(call.out)), search |-> UrlSearch(Get(call.out))]
  ELSE [pathname |-> Location.pathname, search |-> Location.search]

\* the keys the route's own matcher reads back from the produced path
InPath == PathTest(routes[RouteNamed(call.args.name)].path, Produced.pathname)

\* C9: for url, push and replace, the keys with a defined value that are
\* placeholders of the route are in the built path and not in the search,
\* the other keys with a defined value are in the search and not in the
\* path, and a key whose value is undefined is in neither.
C9_SplitIntoPathAndSearch ==
  (Idle /\ call.kind \in {"url", "push", "replace"} /\ call.result = "ok") =>
    /\ IsSome(InPath)
    /\ Get(InPath) = WantedParams
    /\ Parse(Produced.search) = WantedQueries
    /\ DOMAIN Get(InPath) \cap DOMAIN Parse(Produced.search) = {}
    /\ DOMAIN Get(InPath) \cup DOMAIN Parse(Produced.search)
         = DOMAIN Supplied(call.args.values)

\* item was pushed with id, page and an undefined sort: id is in the path,
\* page in the search, sort in neither
C9_Witness ==
  /\ Navigated
  /\ call.args.name = "item"
  /\ DOMAIN call.args.values = {"id", "page", "sort"}
  /\ Location.pathname = <<"/", "items", "/", "a", "%2F", "1">>
  /\ Location.search = <<"?", "page", "=", "2">>

\* ---------------------------------------------------------------------
\* Notification: what the claims are stated with
\* ---------------------------------------------------------------------
\* the listeners registered when the last call of the application was made
RegisteredBefore == {call.registered[i] : i \in 1..Len(call.registered)}

\* a location change the application or the user caused has been handled
Changed == Idle /\ call.kind \in {"push", "replace", "pop"} /\ call.result = "ok"

\* no listener has made a call from its callback
Passive == obs.calls = 0

\* forEach of the innermost notify call has visited every listener
PassComplete == stack # <<>> /\ Top.cb = NoListener /\ Top.pos > Len(listeners)

\* no listener has called listen from its callback
OnlyDisposers == obs.listens = 0

\* the last call left the path as it was and changed the search
QueryOnly ==
  /\ Location.pathname = call.before.pathname
  /\ Location.search # call.before.search

\* ---------------------------------------------------------------------
\* C2
\* ---------------------------------------------------------------------
\* C2: setQuery(key, value) with a defined value starts no pass and invokes
\* no listener, and router.queries[key] is value when it has returned; a
\* successful push that follows it invokes each registered listener
\* exactly once (the listeners making no calls of their own).
C2_SetQueryIsSilent ==
  /\ (call.kind = "setQuery" /\ IsSome(call.args.value)) =>
       /\ Idle
       /\ obs.hits = Zero
       /\ obs.passes = 0
       /\ call.args.key \in DOMAIN queries
       /\ queries[call.args.key] = Get(call.args.value)
  /\ (Idle /\ call.kind = "push" /\ call.result = "ok"
        /\ call.before.isQueryUpdate /\ Passive) =>
       \A l \in Listeners : obs.hits[l] = IF l \in Registered THEN 1 ELSE 0

\* both listeners are registered and setQuery has set page to "a&b"
C2_Witness ==
  /\ call.kind = "setQuery"
  /\ Registered = Listeners
  /\ call.before.search # Location.search
  /\ Location.search = <<"?", "page", "=", "a", "%26", "b">>
  /\ queries = ("page" :> <<"a", "&", "b">>)
  /\ obs.hits = Zero

\* ---------------------------------------------------------------------
\* C3
\* ---------------------------------------------------------------------
\* C3 as claimed: a successful push, replace or back/forward move causes
\* one pass, completed when the call has been handled, and that pass
\* invokes exactly once every listener that was registered when the
\* change happened.
C3_AsClaimed ==
  /\ Changed => obs.passes = 1 + obs.navs
  /\ PassComplete => \A l \in Top.start : Top.hits[l] = 1
  /\ (Changed /\ obs.navs = 0) =>
       \A l \in RegisteredBefore : obs.hits[l] = 1

\* C3: when a successful push, replace or back/forward move has been
\* handled, one pass has completed for it and one for each navigation a
\* listener made meanwhile; this holds also of a move onto an entry
\* setQuery wrote. While no callback calls listen, a pass that has visited
\* every listener has invoked each listener registered when it began at
\* most once, and exactly once unless the listener was disposed before its
\* turn, and it has invoked no other listener; so after a change during
\* which the callbacks did nothing but dispose, each listener registered at
\* the change and still registered was invoked once, each one disposed was
\* invoked at most once, and no other was invoked. After a change during
\* which the callbacks did nothing but navigate, each listener registered
\* at the change was invoked once by each pass.
C3_OnePassPerChange ==
  /\ Changed => obs.passes = 1 + obs.navs
  /\ (PassComplete /\ OnlyDisposers) =>
       /\ \A l \in Top.start :
            /\ Top.hits[l] <= 1
            /\ Top.hits[l] = 0 => l \notin Registered
       /\ \A l \in Listeners \ Top.start : Top.hits[l] = 0
  /\ (Changed /\ OnlyDisposers /\ obs.navs = 0) =>
       /\ \A l \in RegisteredBefore :
            /\ obs.hits[l] <= 1
            /\ obs.hits[l] = 0 => l \notin Registered
       /\ \A l \in Listeners \ RegisteredBefore : obs.hits[l] = 0
  /\ (Changed /\ obs.calls = obs.navs) =>
       \A l \in Listeners :
         obs.hits[l] = IF l \in RegisteredBefore THEN 1 + obs.navs ELSE 0

\* the user moved onto an entry setQuery wrote; l1 and l2 were registered,
\* l1 was invoked and disposed l2 before its turn: the one pass of the move
\* has ended, l1 was invoked once and l2 was not
C3_Witness ==
  /\ Changed
  /\ call.kind = "pop"
  /\ Location.isQueryUpdate
  /\ RegisteredBefore = Listeners
  /\ Registered = {"l1"}
  /\ OnlyDisposers
  /\ obs.passes = 1
  /\ obs.hits = [l \in Listeners |-> IF l = "l1" THEN 1 ELSE 0]

\* ---------------------------------------------------------------------
\* C5
\* ---------------------------------------------------------------------
\* C5 as claimed: a push, replace or setQuery after which the location has
\* the path it had before and another search invokes no listener.
C5_AsClaimed ==
  (Idle /\ call.kind \in {"push", "replace", "setQuery"} /\ call.result = "ok"
     /\ QueryOnly) => obs.hits = Zero

\* C5 as amended: setQuery invokes no listener; a successful push or
\* replace invokes every registered listener once, also when the location
\* has the path it had before and only another search (the listeners
\* making no calls of their own).
C5_OnlySetQueryIsSilent ==
  /\ call.kind = "setQuery" => obs.hits = Zero /\ Idle
  /\ (Idle /\ call.kind \in {"push", "replace"} /\ call.result = "ok"
        /\ QueryOnly /\ Passive) =>
       /\ obs.passes = 1
       /\ \A l \in Registered : obs.hits[l] = 1

\* replace has changed only the search, and a listener was invoked
C5_Witness ==
  /\ Idle
  /\ call.kind = "replace"
  /\ QueryOnly
  /\ Registered # {}
  /\ \A l \in Registered : obs.hits[l] = 1

\* ---------------------------------------------------------------------
\* C6
\* ---------------------------------------------------------------------
\* C6 as claimed (its last part): calling a disposer that has been called
\* before changes no registration.
C6_AsClaimed ==
  (call.kind = "dispose" /\ call.args.again) => listeners = call.registered

\* C6 as amended: a disposer removes its listener and no other; the
\* listener is not invoked by a later notification while every registered
\* listener is invoked once (the listeners making no calls of their own);
\* calling the disposer again changes no registration as long as the
\* listener has not been registered again.
C6_DisposerRemovesItsListener ==
  /\ call.kind = "dispose" =>
       /\ Registered = RegisteredBefore \ {call.args.listener}
       /\ Len(listeners) = Cardinality(Registered)
       /\ (call.args.again /\ call.args.listener \notin RegisteredBefore) =>
            listeners = call.registered
  /\ (call.kind \in {"push", "replace", "pop"} /\ Passive) =>
       \A l \in Listeners \ RegisteredBefore : obs.hits[l] = 0
  /\ (Changed /\ Passive) => \A l \in Registered : obs.hits[l] = 1

\* l1 was disposed and l2 was not: a push has invoked l2 and not l1
C6_Witness ==
  /\ Changed
  /\ call.kind = "push"
  /\ "l1" \in spent \ Registered
  /\ Registered = {"l2"}
  /\ obs.hits = ("l1" :> 0) @@ ("l2" :> 1)

\* ---------------------------------------------------------------------
\* C7
\* ---------------------------------------------------------------------
\* C7: the value a listener is invoked with is undefined exactly when
\* router.current is undefined at that moment, and otherwise has the
\* name, params, queries and pathname of router.current at that moment.
C7_DeliveredIsCurrent ==
  IsSome(obs.last) =>
    /\ IsSome(Get(obs.last).value) <=> IsSome(Get(obs.last).current)
    /\ IsSome(Get(obs.last).value) =>
         FieldsNow(Get(Get(obs.last).value)) = Get(Get(obs.last).current)

\* ---------------------------------------------------------------------
\* C10
\* ---------------------------------------------------------------------
\* C10 as claimed: a value read from router.current, and a value a
\* listener was invoked with, has the name, params, queries and pathname
\* it had when it was obtained, whatever navigation has followed.
C10_AsClaimed ==
  IsSome(held) => FieldsNow(Get(held).val) = Get(held).seen

\* C10 as amended: a value a listener was invoked with keeps its name,
\* params, queries and pathname over later navigation; a value read from
\* router.current keeps its name, and its queries and pathname are those
\* of the location that is current when they are read.
C10_DeliveredValuesKeep ==
  IsSome(held) =>
    /\ Get(held).from = "listener" => FieldsNow(Get(held).val) = Get(held).seen
    /\ Get(held).from = "current" =>
         /\ FieldsNow(Get(held).val).name = Get(held).seen.name
         /\ FieldsNow(Get(held).val).queries = queries
         /\ FieldsNow(Get(held).val).pathname = pathname

\* a listener kept its value over a navigation to another path
C10_Witness ==
  /\ IsSome(held)
  /\ Get(held).from = "listener"
  /\ Get(held).age = 1
  /\ Idle
  /\ Get(held).seen.pathname # pathname
  /\ FieldsNow(Get(held).val).pathname = Get(held).seen.pathname

\* ---------------------------------------------------------------------
\* C11
\* ---------------------------------------------------------------------
\* the call just made is url, push or replace
BuildsUrl == call'.kind \in {"url", "push", "replace"}

\* the step has left the router as it was and has invoked no listener
NothingHappened ==
  /\ UNCHANGED <<routes, base, entries, index, listeners, spent, stack>>
  /\ obs'.hits = Zero
  /\ obs'.passes = 0

\* C11: url, push and replace with a name that is not in the configuration
\* throw (no string is returned) and leave the location, the history
\* entries, the listener set and the calls in progress as they were, and
\* invoke no listener; the router is then in the state it was in before
\* the call, for every operation that follows.
C11_UnknownNameChangesNothing ==
  [][(BuildsUrl /\ ~HasRoute(call'.args.name)) =>
       /\ call'.result = "lookup"
       /\ call'.out = None
       /\ NothingHappened]_vars

\* push of a name that is not configured has thrown, with both listeners
\* registered and two history entries
C11_Witness ==
  /\ Idle
  /\ call.kind = "push"
  /\ call.args.name = "nowhere"
  /\ call.result = "lookup"
  /\ Registered = Listeners
  /\ Len(entries) = 2
  /\ Location = call.before
  /\ obs.hits = Zero

\* ---------------------------------------------------------------------
\* C12
\* ---------------------------------------------------------------------
\* the values of the call just made leave a placeholder of its route
\* without a defined value
LacksPlaceholder ==
  /\ HasRoute(call'.args.name)
  /\ ~(PathParamNames(routes[RouteNamed(call'.args.name)].path)
         \subseteq DOMAIN Supplied(call'.args.values))

\* C12: url, push and replace for a route with a placeholder that has no
\* defined value throw and return no URL, leave the location, the history
\* entries and the listener set as they were, and invoke no listener.
C12_MissingPlaceholderChangesNothing ==
  [][(BuildsUrl /\ LacksPlaceholder) =>
       /\ call'.result = "build"
       /\ call'.out = None
       /\ NothingHappened]_vars

\* replace of item with an undefined id has thrown, with a listener
\* registered
C12_Witness ==
  /\ Idle
  /\ call.kind = "replace"
  /\ call.args.name = "item"
  /\ call.args.values = ("id" :> Undefined)
  /\ call.result = "build"
  /\ Registered # {}
  /\ Location = call.before
  /\ obs.hits = Zero

\* ---------------------------------------------------------------------
\* C13
\* ---------------------------------------------------------------------
\* C13: while no route accepts the current path, router.current is
\* undefined, router.queries and router.pathname have values, a listener
\* that is invoked is invoked with undefined, and a location change that
\* has landed on such a path has invoked every registered listener (the
\* listeners making no calls of their own).
C13_NoMatchIsUndefined ==
  Accepting = {} =>
    /\ current = Undefined
    /\ CurrentFields = None
    /\ DOMAIN queries \subseteq {KeyOrder[i] : i \in 1..Len(KeyOrder)}
    /\ Len(pathname) <= Len(Location.pathname)
    /\ IsSome(obs.last) => Get(obs.last).value = Undefined
    /\ (Changed /\ Passive) => \A l \in Registered : obs.hits[l] = 1

\* the user went back to a path no route accepts: the second of two
\* listeners has just been invoked with undefined
C13_Witness ==
  /\ Accepting = {}
  /\ call.kind = "pop"
  /\ Registered = Listeners
  /\ IsSome(obs.last)
  /\ Get(obs.last).value = Undefined
  /\ \A l \in Listeners : obs.hits[l] = 1

\* ---------------------------------------------------------------------
\* C14
\* ---------------------------------------------------------------------
\* router.queries before the last call
QueriesBefore == Parse(call.before.search)

\* C14: setQuery(key, value) leaves the path, router.pathname, the route
\* and the params of router.current, the listener set and every query key
\* other than key as they were; router.queries[key] is value when value is
\* defined, and key is not in router.queries when value is undefined.
C14_SetQueryChangesOneKey ==
  call.kind = "setQuery" =>
    /\ Location.pathname = call.before.pathname
    /\ pathname = Substring(call.before.pathname, BaseLength)
    /\ getActiveRoute = ActiveAt(call.before.pathname)
    /\ IsSome(getActiveRoute) =>
         RouteParams(Get(getActiveRoute))
           = Get(PathTest(routes[Get(getActiveRoute)].path, call.before.pathname))
    /\ listeners = call.registered
    /\ DOMAIN queries \ {call.args.key} = DOMAIN QueriesBefore \ {call.args.key}
    /\ \A k \in DOMAIN queries \ {call.args.key} : queries[k] = QueriesBefore[k]
    /\ IsSome(call.args.value) =>
         /\ call.args.key \in DOMAIN queries
         /\ queries[call.args.key] = Get(call.args.value)
    /\ ~IsSome(call.args.value) => call.args.key \notin DOMAIN queries

\* at /items/a%2F1?page=2 setQuery has set foo: page is as it was
C14_Witness ==
  /\ call.kind = "setQuery"
  /\ call.args.key = "foo"
  /\ call.before.search = <<"?", "page", "=", "2">>
  /\ queries = ("foo" :> <<"a", "&", "b">>) @@ ("page" :> <<"2">>)
  /\ IsSome(CurrentFields)
  /\ Get(CurrentFields).name = "item"
  /\ Get(CurrentFields).params = ("id" :> <<"a", "/", "1">>)

\* ---------------------------------------------------------------------
\* C15
\* ---------------------------------------------------------------------
\* the prefix every route is compiled with
BasePrefix == IF IsSome(base) THEN Get(base) ELSE <<>>

\* the configuration the router was created with
Config == IF Len(routes) = Len(ConfigA) THEN ConfigA ELSE ConfigB

\* the path the template of the called route builds, without any base
BuiltPath ==
  PathBuild(StripQuery(ConfigTemplate(call.args.name)), WantedParams).path

\* C15: the base the router uses is never "/" and starts with "/" when it
\* is not empty; every route is compiled as that base followed by its
\* template's path; the path of url(name, values) and the path push and
\* replace write are the base followed by the route's built path, the
\* route accepts that path, and after push or replace router.pathname is
\* the built path without the base.
C15_PathsUnderBase ==
  /\ BasePrefix # <<"/">>
  /\ BasePrefix # <<>> => Head(BasePrefix) = "/"
  /\ \A i \in 1..Len(routes) :
       routes[i].path = BasePrefix \o StripQuery(Config[i].template)
  /\ (Idle /\ call.kind \in {"url", "push", "replace"} /\ call.result = "ok") =>
       /\ Produced.pathname = BasePrefix \o BuiltPath
       /\ IsSome(InPath)
       /\ call.kind # "url" => pathname = BuiltPath

\* item was pushed under the base "app"
C15_Witness ==
  /\ Navigated
  /\ call.kind = "push"
  /\ BasePrefix = <<"/", "a", "p", "p">>
  /\ Location.pathname = <<"/", "a", "p", "p", "/", "items", "/", "a", "%2F", "1">>
  /\ pathname = <<"/", "items", "/", "a", "%2F", "1">>

\* ---------------------------------------------------------------------
\* C16
\* ---------------------------------------------------------------------
\* C16: url(name, values), whether it returns a string or throws, leaves
\* the location, the history entries and the listener set as they were
\* and invokes no listener: router.current, router.queries and
\* router.pathname read the same before and after the call.
C16_UrlHasNoEffect ==
  [][call'.kind = "url" =>
       /\ NothingHappened
       /\ Location' = Location
       /\ getActiveRoute' = getActiveRoute
       /\ queries' = queries
       /\ pathname' = pathname]_vars

\* url has returned a string while a route is current, listeners are
\* registered and the history has two entries
C16_Witness ==
  /\ call.kind = "url"
  /\ call.result = "ok"
  /\ IsSome(call.out)
  /\ Registered = Listeners
  /\ Len(entries) = 2
  /\ IsSome(current)
  /\ Location.pathname # UrlPath(Get(call.out))
  /\ Location = call.before
  /\ obs.hits = Zero

\* ---------------------------------------------------------------------
\* C17
\* ---------------------------------------------------------------------
\* C17: while listeners call disposers, and not listen, from their
\* callbacks, no pass invokes a listener twice, and a pass that has
\* visited every listener has invoked once each listener that was
\* registered when it began and is still registered: only a listener
\* disposed before its turn is not invoked.
C17_DisposeDuringPass ==
  OnlyDisposers =>
    /\ \A i \in 1..Len(stack) : \A l \in Listeners : stack[i].hits[l] <= 1
    /\ PassComplete =>
         \A l \in Top.start : l \in Registered => Top.hits[l] = 1
    /\ PassComplete =>
         \A l \in Listeners \ Top.start : Top.hits[l] = 0

\* a disposer of l1 was called during the pass after l1's turn: the pass
\* has invoked l1 and l2 once each
C17_Witness ==
  /\ PassComplete
  /\ Top.changed
  /\ obs.calls = 1
  /\ OnlyDisposers
  /\ Top.start = Listeners
  /\ Registered = {"l2"}
  /\ \A l \in Listeners : Top.hits[l] = 1

\* ---------------------------------------------------------------------
\* C18
\* ---------------------------------------------------------------------
\* C18: in every reachable state router.queries holds the whole search
\* (encoding it again gives the search of the location), it is empty when
\* the search is empty, and when router.current is defined its queries
\* are router.queries, keys its template does not declare included.
C18_QueriesAreTheSearch ==
  /\ HistorySearch(<<"?">> \o Stringify(queries)) = Location.search
  /\ Location.search = <<>> <=> queries = EmptyMap
  /\ IsSome(CurrentFields) => Get(CurrentFields).queries = queries

\* item is current (its template declares page) and its queries hold foo
\* and page
C18_Witness ==
  /\ IsSome(CurrentFields)
  /\ Get(CurrentFields).name = "item"
  /\ DeclaredKeys(ConfigTemplate("item")) = {"page"}
  /\ Location.search = <<"?", "foo", "=", "a", "%26", "b", "&", "page", "=", "2">>
  /\ Get(CurrentFields).queries = ("foo" :> <<"a", "&", "b">>) @@ ("page" :> <<"2">>)

\* ---------------------------------------------------------------------
\* C19
\* ---------------------------------------------------------------------
\* C19: every pass ends, and the push or replace that started it
\* returns, when the callbacks of the listeners call only listen and
\* disposers, a listener that disposes itself and registers itself again
\* in its callback included.
C19_PassesEnd == (~Idle) ~> Idle

\* ---------------------------------------------------------------------
\* C20
\* ---------------------------------------------------------------------
\* C20: after a successful push or replace router.queries is exactly the
\* defined values of the call whose keys are not placeholders of the
\* route: a key the query had before, from setQuery or from an earlier
\* push, is gone unless the call supplies it.
C20_PushReplacesTheQuery ==
  Navigated =>
    /\ queries = WantedQueries
    /\ \A k \in DOMAIN QueriesBefore \ DOMAIN WantedQueries : k \notin DOMAIN queries

\* the query held page from a push and foo from setQuery; main was pushed
\* without values and the query is empty
C20_Witness ==
  /\ Navigated
  /\ call.kind = "push"
  /\ call.args.name = "main"
  /\ call.before.isQueryUpdate
  /\ DOMAIN QueriesBefore = {"foo", "page"}
  /\ Location.search = <<>>
  /\ queries = EmptyMap

\* ---------------------------------------------------------------------
\* C21
\* ---------------------------------------------------------------------
\* the history entry before the current one
Below == IF index > 1 THEN Some(entries[index - 1]) ELSE None

\* every entry but the current one is as it was
OthersKept ==
  /\ Len(entries') = Len(entries)
  /\ index' = index
  /\ \A i \in 1..Len(entries) : i # index => entries'[i] = entries[i]

\* C21: setQuery and a successful replace write the current history entry
\* and leave the number of entries, the position and every other entry as
\* they were; a successful push adds exactly one entry, after the entry
\* that was current, and makes it the current one; going back changes no
\* entry. Hence the entry before the current one is the location push
\* was called at, stays that over setQuery and replace, and is the
\* location after going back.
C21_HistoryEntries ==
  [][Idle =>
       /\ call'.kind = "setQuery" => OthersKept /\ Below' = Below
       /\ (call'.kind = "replace" /\ call'.result = "ok") =>
            OthersKept /\ Below' = Below
       /\ (call'.kind = "push" /\ call'.result = "ok") =>
            /\ index' = index + 1
            /\ Len(entries') = index'
            /\ SubSeq(entries', 1, index) = SubSeq(entries, 1, index)
            /\ Below' = Some(Location)
       /\ call'.kind = "pop" =>
            /\ entries' = entries
            /\ index' = index - 1 => Some(Location') = Below]_vars

\* item was pushed at /nonexistent, setQuery wrote its entry, and the user
\* went back: the location is /nonexistent again
C21_Witness ==
  /\ Idle
  /\ call.kind = "pop"
  /\ index = 1
  /\ Len(entries) = 2
  /\ entries[2].isQueryUpdate
  /\ entries[2].pathname = <<"/", "items", "/", "a", "%2F", "1">>
  /\ Location = Entry(<<"/", "nonexistent">>, <<>>, FALSE)

====
